---- MODULE Spec2Model ----
(***************************************************************************)
(* BirthdayDealFinder: the catalog loader, the per-store search and the    *)
(* two search drivers (sequential and thread-pool) of                      *)
(* src/birthday_deals_finder.py, run the way src/performance_test.py runs  *)
(* them: the sequential search first, then the concurrent one, against the *)
(* same catalog, origin and place-search responses.                        *)
(*                                                                         *)
(* Strings that the code transforms (CSV fields) are sequences of          *)
(* characters.  Distances are integers in thousandths of a mile; a value   *)
(* rounded to two decimals is a multiple of 10.  An optional value is a    *)
(* sequence of length 0 (absent / None) or 1 (present).                    *)
(***************************************************************************)
EXTENDS Integers, Sequences, FiniteSets, TLC

VARIABLES
    csv_file,      \* birthday_deals.csv: [exists, rows]
    deals_data,    \* self.deals_data: insertion-ordered dict, a sequence of [store_name, deal]
    pc,            \* position of the main program
    max_workers,   \* self.max_workers
    radius_miles,  \* the requested radius, thousandths of a mile
    geo,           \* what gmaps.geocode answers for the location: [kind, coords]
    responses,     \* what gmaps.places answers, per catalog position: [kind, results]
    mode,          \* the search being run: "none", "seq" or "conc"
    search_coords, \* the resolved origin of the running search
    found_stores,  \* the found_stores list of the running search
    next_store,    \* sequential: catalog position of the next loop iteration;
                   \* concurrent: catalog position of the next submit
    tasks,         \* concurrent: one work item per submitted entry: [state, outcome]
    collected,     \* concurrent: futures as_completed has yielded
    returned,      \* per search: None until it returns, then Some(list)
    propagated,    \* per search: an exception left the search call
    places_calls,  \* per search: catalog positions gmaps.places was called for
    examined,      \* per search and catalog position: candidates the loop looked at
    diagnostics,   \* per search: what was printed: [geocode, stores], the geocoding
                   \* message and the catalog positions of the stores reported
    stores,        \* the stores argument of print_results
    stdout         \* the lines print_results printed, each a sequence of pieces

loader_vars == <<csv_file, deals_data>>
input_vars == <<max_workers, radius_miles, geo, responses>>
run_vars == <<mode, search_coords, found_stores, next_store, tasks, collected>>
log_vars == <<returned, propagated, places_calls, examined, diagnostics>>
print_vars == <<stores, stdout>>

vars == <<csv_file, deals_data, pc, max_workers, radius_miles, geo, responses, mode,
          search_coords, found_stores, next_store, tasks, collected, returned,
          propagated, places_calls, examined, diagnostics, stores, stdout>>

----------------------------------------------------------------------------
(* Bounds *)

MaxRows == 3        \* rows of a catalog file given to the loader
MaxStores == 2      \* catalog entries of a search
MaxAnswers == 2     \* size of the place search's answers, over the whole catalog
MaxPrinted == 2     \* Matches handed to print_results
MaxWorkers == 2     \* max_workers

----------------------------------------------------------------------------
(* Catalog loader: BirthdayDealsFinder._load_deals_data *)

None == <<>>
Some(v) == <<v>>
IsNone(o) == Len(o) = 0

IsSpace(c) == c = " "

\* str.strip(): drop leading and trailing whitespace
RECURSIVE LStrip(_)
LStrip(s) ==
    IF s # <<>> /\ IsSpace(Head(s)) THEN LStrip(Tail(s)) ELSE s

RECURSIVE RStrip(_)
RStrip(s) ==
    IF s # <<>> /\ IsSpace(s[Len(s)]) THEN RStrip(SubSeq(s, 1, Len(s) - 1)) ELSE s

Strip(s) == RStrip(LStrip(s))

\* index of key in the dict, 0 when absent
KeyIndex(d, k) ==
    IF \E i \in 1..Len(d) : d[i].store_name = k
    THEN CHOOSE i \in 1..Len(d) : d[i].store_name = k
    ELSE 0

\* variant: deals.setdefault(store_name, deal), the first row of a store wins
DictSetKeepFirst(d, k, v) ==
    IF \E i \in 1..Len(d) : d[i].store_name = k
    THEN d
    ELSE Append(d, [store_name |-> k, deal |-> v])

\* deals[store_name] = deal: an existing key keeps its position and takes
\* the new value, a new key is appended
DictSet(d, k, v) ==
    IF KeyIndex(d, k) = 0
    THEN Append(d, [store_name |-> k, deal |-> v])
    ELSE [d EXCEPT ![KeyIndex(d, k)].deal = v]

\* row['store'].strip() raises when DictReader filled the field with None
RowRaises(row) == IsNone(row.store) \/ IsNone(row.deal)

\* the for loop over reader: [deals, raised]
RECURSIVE LoadRows(_, _)
LoadRows(rows, deals) ==
    IF rows = <<>> THEN [deals |-> deals, raised |-> FALSE]
    ELSE IF RowRaises(Head(rows)) THEN [deals |-> deals, raised |-> TRUE]
    ELSE LoadRows(Tail(rows),
                  DictSet(deals, Strip(Head(rows).store[1]), Strip(Head(rows).deal[1])))

LoadDeals(rows) == LoadRows(rows, <<>>)

\* __init__ -> _load_deals_data: a missing file or any error exits the process
LoadDealsData ==
    /\ pc = "start"
    /\ \/ /\ ~csv_file.exists
          /\ pc' = "exit"
          /\ UNCHANGED deals_data
       \/ /\ csv_file.exists
          /\ LoadDeals(csv_file.rows).raised
          /\ pc' = "exit"
          /\ UNCHANGED deals_data
       \/ /\ csv_file.exists
          /\ ~LoadDeals(csv_file.rows).raised
          /\ deals_data' = LoadDeals(csv_file.rows).deals
          /\ pc' = "idle"
    /\ UNCHANGED <<print_vars, csv_file, input_vars, run_vars, log_vars>>

----------------------------------------------------------------------------
(* Distance filter and Match construction *)

Abs(x) == IF x < 0 THEN -x ELSE x

\* geodesic(search_coords, place_coords).miles, on a meridian: coordinates are
\* positions in thousandths of a mile
Geodesic(a, b) == Abs(a - b)

\* round(distance_miles, 2): to the nearest hundredth; an exact tie, which a
\* binary float rarely holds, goes to the even one
Round2(d) ==
    LET q == d \div 10
        r == d % 10
    IN  IF r < 5 THEN 10 * q
        ELSE IF r > 5 THEN 10 * (q + 1)
        ELSE IF q % 2 = 0 THEN 10 * q ELSE 10 * (q + 1)

\* dict.get(key, default) of an optional field
DictGet(field, default) == IF IsNone(field) THEN default ELSE field[1]

\* the dict appended to found_stores
MakeMatch(store_name, deal, place, distance_miles) ==
    [ store_name         |-> store_name,
      deal               |-> deal,
      address            |-> DictGet(place.formatted_address, "Address not available"),
      distance_miles     |-> Round2(distance_miles),
      place_id           |-> DictGet(place.place_id, ""),
      rating             |-> DictGet(place.rating, "N/A"),
      user_ratings_total |-> DictGet(place.user_ratings_total, "N/A") ]

\* variant: distance_miles < radius_miles
WithinRadiusStrict(distance_miles, radius) == distance_miles < radius

\* distance_miles <= radius_miles
WithinRadius(distance_miles, radius) == distance_miles <= radius

\* variant: except KeyError
ExceptKeyErrorOnly(exc) == exc = "KeyError"

\* except Exception: every error of the try body is an Exception
ExceptException(exc) == exc \in {"ApiError", "AttributeError", "KeyError"}

----------------------------------------------------------------------------
(* Per-store search: BirthdayDealsFinder._search_single_store *)

\* self.gmaps.places(query=store_name, ...): the mock answers by store name
PlacesCall(store_name) == responses[KeyIndex(deals_data, store_name)]

\* the call comes back, with an answer or an error; a call that hangs never does
\* (no timeout is passed to the client or to as_completed)
PlacesCallComes(store_name) == PlacesCall(store_name).kind # "hang"

\* variant: the loop without its break, every candidate within the radius appended
RECURSIVE CheckPlacesNoBreak(_, _, _, _, _, _)
CheckPlacesNoBreak(results, k, store_name, deal, coords, radius) ==
    IF k > Len(results)
    THEN [found |-> <<>>, exc |-> "none", examined |-> Len(results)]
    ELSE IF IsNone(results[k].geometry)
    THEN [found |-> <<>>, exc |-> "KeyError", examined |-> k]
    ELSE LET rest == CheckPlacesNoBreak(results, k + 1, store_name, deal, coords, radius)
         IN  IF WithinRadius(Geodesic(coords, results[k].geometry[1]), radius)
             THEN [rest EXCEPT !.found =
                      << MakeMatch(store_name, deal, results[k],
                                   Geodesic(coords, results[k].geometry[1])) >> \o @]
             ELSE rest

\* variant: the loop without its break, the last candidate within the radius kept
RECURSIVE CheckPlacesLast(_, _, _, _, _, _)
CheckPlacesLast(results, k, store_name, deal, coords, radius) ==
    IF k > Len(results)
    THEN [found |-> <<>>, exc |-> "none", examined |-> Len(results)]
    ELSE IF IsNone(results[k].geometry)
    THEN [found |-> <<>>, exc |-> "KeyError", examined |-> k]
    ELSE LET rest == CheckPlacesLast(results, k + 1, store_name, deal, coords, radius)
         IN  IF WithinRadius(Geodesic(coords, results[k].geometry[1]), radius)
                /\ rest.found = <<>>
             THEN [rest EXCEPT !.found =
                      << MakeMatch(store_name, deal, results[k],
                                   Geodesic(coords, results[k].geometry[1])) >>]
             ELSE rest

\* variant: an error handler around each candidate, a candidate without
\* coordinates skipped
RECURSIVE CheckPlacesSkipMalformed(_, _, _, _, _, _)
CheckPlacesSkipMalformed(results, k, store_name, deal, coords, radius) ==
    IF k > Len(results)
    THEN [found |-> <<>>, exc |-> "none", examined |-> Len(results)]
    ELSE IF IsNone(results[k].geometry)
    THEN CheckPlacesSkipMalformed(results, k + 1, store_name, deal, coords, radius)
    ELSE IF WithinRadius(Geodesic(coords, results[k].geometry[1]), radius)
    THEN [found |-> << MakeMatch(store_name, deal, results[k],
                                 Geodesic(coords, results[k].geometry[1])) >>,
          exc |-> "none", examined |-> k]
    ELSE CheckPlacesSkipMalformed(results, k + 1, store_name, deal, coords, radius)

\* the for loop over places_result.get('results', []), from candidate k on:
\* [found, exc, examined]
RECURSIVE CheckPlaces(_, _, _, _, _, _)
CheckPlaces(results, k, store_name, deal, coords, radius) ==
    IF k > Len(results)
    THEN [found |-> <<>>, exc |-> "none", examined |-> Len(results)]
    ELSE IF IsNone(results[k].geometry)
    THEN [found |-> <<>>, exc |-> "KeyError", examined |-> k]
    ELSE IF WithinRadius(Geodesic(coords, results[k].geometry[1]), radius)
    THEN [found |-> << MakeMatch(store_name, deal, results[k],
                                 Geodesic(coords, results[k].geometry[1])) >>,
          exc |-> "none", examined |-> k]
    ELSE CheckPlaces(results, k + 1, store_name, deal, coords, radius)

\* the try body: the places call, then the loop
SearchBody(store_name, deal, coords, radius) ==
    LET places_result == PlacesCall(store_name)
    IN  IF places_result.kind = "raise"
        THEN [found |-> <<>>, exc |-> "ApiError", examined |-> 0]
        ELSE IF places_result.kind = "none"
        THEN [found |-> <<>>, exc |-> "AttributeError", examined |-> 0]
        ELSE CheckPlaces(DictGet(places_result.results, <<>>), 1,
                         store_name, deal, coords, radius)

\* variant: except Exception: pass, the error swallowed without a message
SearchSingleStoreSilent(store_name, deal, coords, radius) ==
    LET body == SearchBody(store_name, deal, coords, radius)
        caught == body.exc # "none" /\ ExceptException(body.exc)
    IN  [ found    |-> body.found,
          printed  |-> FALSE,
          exc      |-> IF caught THEN "none" ELSE body.exc,
          examined |-> body.examined ]

\* the whole method: [found, printed, exc, examined]; exc is what leaves it
SearchSingleStore(store_name, deal, coords, radius) ==
    LET body == SearchBody(store_name, deal, coords, radius)
        caught == body.exc # "none" /\ ExceptException(body.exc)
    IN  [ found    |-> body.found,
          printed  |-> caught,
          exc      |-> IF caught THEN "none" ELSE body.exc,
          examined |-> body.examined ]

----------------------------------------------------------------------------
(* Sorting: found_stores.sort(key=lambda x: x['distance_miles']) *)

\* x placed after every element whose key is <= its own
InsertStable(sorted, x) ==
    LET n == Cardinality({i \in 1..Len(sorted) :
                            sorted[i].distance_miles <= x.distance_miles})
    IN  SubSeq(sorted, 1, n) \o <<x>> \o SubSeq(sorted, n + 1, Len(sorted))

\* variant: the list returned as collected, the sort left out
SortByDistanceLeftOut(list) == list

RECURSIVE SortByDistance(_)
SortByDistance(list) ==
    IF list = <<>> THEN <<>>
    ELSE InsertStable(SortByDistance(SubSeq(list, 1, Len(list) - 1)), list[Len(list)])

----------------------------------------------------------------------------
(* Geocoding of the origin, the same code in both searches *)

\* variant: a failed geocoding falls through to the search with a default origin
GeocodeLocationDefaultOrigin(g) ==
    IF g.kind = "ok" /\ ~IsNone(g.coords)
    THEN [ok |-> TRUE, coords |-> g.coords[1]]
    ELSE [ok |-> TRUE, coords |-> 0]

\* [ok, coords]: an empty answer, an error of the call and a result without
\* geometry all end the search with a message and []
GeocodeLocation(g) ==
    IF g.kind = "ok" /\ ~IsNone(g.coords)
    THEN [ok |-> TRUE, coords |-> g.coords[1]]
    ELSE [ok |-> FALSE, coords |-> 0]

NoTasks == <<>>

\* a search's call returns list
Return(list) ==
    /\ returned' = [returned EXCEPT ![mode] = Some(list)]
    /\ mode' = "none"
    /\ pc' = "idle"
    /\ found_stores' = <<>>
    /\ next_store' = 1
    /\ tasks' = NoTasks
    /\ collected' = {}
    /\ search_coords' = 0

\* an exception leaves a search's call
Raise ==
    /\ propagated' = [propagated EXCEPT ![mode] = TRUE]
    /\ mode' = "none"
    /\ pc' = "idle"
    /\ found_stores' = <<>>
    /\ next_store' = 1
    /\ tasks' = NoTasks
    /\ collected' = {}
    /\ search_coords' = 0
    /\ UNCHANGED returned

----------------------------------------------------------------------------
(* Sequential search: BirthdayDealsFinder.find_stores_within_radius *)

\* the for loop over place results, inlined in the sequential search
RECURSIVE SeqCheckPlaces(_, _, _, _, _, _)
SeqCheckPlaces(results, k, store_name, deal, coords, radius) ==
    IF k > Len(results)
    THEN [found |-> <<>>, exc |-> "none", examined |-> Len(results)]
    ELSE IF IsNone(results[k].geometry)
    THEN [found |-> <<>>, exc |-> "KeyError", examined |-> k]
    ELSE IF WithinRadius(Geodesic(coords, results[k].geometry[1]), radius)
    THEN [found |-> << MakeMatch(store_name, deal, results[k],
                                 Geodesic(coords, results[k].geometry[1])) >>,
          exc |-> "none", examined |-> k]
    ELSE SeqCheckPlaces(results, k + 1, store_name, deal, coords, radius)

\* one iteration of the loop over self.deals_data.items(): [found, printed, exc, examined]
SeqSearchStore(store_name, deal, coords, radius) ==
    LET places_result == PlacesCall(store_name)
        body == IF places_result.kind = "raise"
                THEN [found |-> <<>>, exc |-> "ApiError", examined |-> 0]
                ELSE IF places_result.kind = "none"
                THEN [found |-> <<>>, exc |-> "AttributeError", examined |-> 0]
                ELSE SeqCheckPlaces(DictGet(places_result.results, <<>>), 1,
                                    store_name, deal, coords, radius)
        caught == body.exc # "none" /\ ExceptException(body.exc)
    IN  [ found    |-> body.found,
          printed  |-> caught,
          exc      |-> IF caught THEN "none" ELSE body.exc,
          examined |-> body.examined ]

\* the call, up to the loop: geocode, and return [] when that fails
SeqGeocode ==
    /\ pc = "idle"
    /\ IsNone(returned["seq"]) /\ ~propagated["seq"]
    /\ LET g == GeocodeLocation(geo)
       IN  IF g.ok
           THEN /\ mode' = "seq"
                /\ pc' = "seq_loop"
                /\ search_coords' = g.coords
                /\ found_stores' = <<>>
                /\ next_store' = 1
                /\ UNCHANGED <<tasks, collected, returned, diagnostics>>
           ELSE /\ diagnostics' = [diagnostics EXCEPT !["seq"].geocode = TRUE]
                /\ returned' = [returned EXCEPT !["seq"] = Some(<<>>)]
                /\ UNCHANGED <<pc, run_vars>>
    /\ UNCHANGED <<print_vars, loader_vars, input_vars, propagated, places_calls, examined>>

\* one loop iteration: the places call, the candidates, the append
SeqIteration ==
    /\ pc = "seq_loop"
    /\ next_store <= Len(deals_data)
    /\ PlacesCallComes(deals_data[next_store].store_name)
    /\ LET i == next_store
           r == SeqSearchStore(deals_data[i].store_name, deals_data[i].deal,
                               search_coords, radius_miles)
       IN  /\ places_calls' = [places_calls EXCEPT !["seq"] = @ \cup {i}]
           /\ examined' = [examined EXCEPT !["seq"][i] = r.examined]
           /\ diagnostics' = [diagnostics EXCEPT !["seq"].stores =
                                 IF r.printed THEN @ \cup {i} ELSE @]
           /\ IF r.exc = "none"
              THEN /\ found_stores' = found_stores \o r.found
                   /\ next_store' = i + 1
                   /\ UNCHANGED <<pc, mode, search_coords, tasks, collected,
                                  returned, propagated>>
              ELSE Raise
    /\ UNCHANGED <<print_vars, loader_vars, input_vars>>

\* after the loop: sort and return
SeqSortReturn ==
    /\ pc = "seq_loop"
    /\ next_store > Len(deals_data)
    /\ Return(SortByDistance(found_stores))
    /\ UNCHANGED <<print_vars, loader_vars, input_vars, propagated, places_calls, examined,
                   diagnostics>>

----------------------------------------------------------------------------
(* Concurrent search: BirthdayDealsFinder.find_stores_within_radius_concurrent *)

NoOutcome == [found |-> <<>>, printed |-> FALSE, exc |-> "none", examined |-> 0]

Running == {i \in 1..Len(tasks) : tasks[i].state = "running"}
Queued == {i \in 1..Len(tasks) : tasks[i].state = "queued"}
Finished == {i \in 1..Len(tasks) : tasks[i].state = "done"}

\* the call, up to the pool: geocode, and return [] when that fails
ConcGeocode ==
    /\ IF pc = "idle"
       THEN ~IsNone(returned["seq"]) \/ propagated["seq"]
       ELSE pc = "example"
    /\ IsNone(returned["conc"]) /\ ~propagated["conc"]
    /\ LET g == GeocodeLocation(geo)
       IN  IF g.ok
           THEN /\ mode' = "conc"
                /\ pc' = "conc_pool"
                /\ search_coords' = g.coords
                /\ found_stores' = <<>>
                /\ next_store' = 1
                /\ tasks' = NoTasks
                /\ collected' = {}
                /\ UNCHANGED <<returned, diagnostics>>
           ELSE /\ diagnostics' = [diagnostics EXCEPT !["conc"].geocode = TRUE]
                /\ returned' = [returned EXCEPT !["conc"] = Some(<<>>)]
                /\ UNCHANGED <<pc, run_vars>>
    /\ UNCHANGED <<print_vars, loader_vars, input_vars, propagated, places_calls, examined>>

\* executor.submit for the next catalog entry: one work item, queued
Submit ==
    /\ pc = "conc_pool"
    /\ next_store <= Len(deals_data)
    /\ tasks' = Append(tasks, [state |-> "queued", outcome |-> NoOutcome])
    /\ next_store' = next_store + 1
    /\ UNCHANGED <<print_vars, loader_vars, input_vars, pc, mode, search_coords, found_stores,
                   collected, log_vars>>

\* variant: a thread per work item, the pool size not enforced
TaskStartUnbounded(i) ==
    /\ pc = "conc_pool"
    /\ i \in Queued
    /\ \A j \in Queued : i <= j
    /\ tasks' = [tasks EXCEPT ![i].state = "running"]
    /\ places_calls' = [places_calls EXCEPT !["conc"] = @ \cup {i}]
    /\ UNCHANGED <<print_vars, loader_vars, input_vars, pc, mode, search_coords, found_stores,
                   next_store, collected, returned, propagated, examined, diagnostics>>

\* variant: a worker thread runs one work item and ends, so only the first
\* max_workers items are ever taken
TaskStartNoReuse(i) ==
    /\ pc = "conc_pool"
    /\ i \in Queued
    /\ \A j \in Queued : i <= j
    /\ i <= max_workers
    /\ Cardinality(Running) < max_workers
    /\ tasks' = [tasks EXCEPT ![i].state = "running"]
    /\ places_calls' = [places_calls EXCEPT !["conc"] = @ \cup {i}]
    /\ UNCHANGED <<print_vars, loader_vars, input_vars, pc, mode, search_coords, found_stores,
                   next_store, collected, returned, propagated, examined, diagnostics>>

\* a worker thread takes the oldest queued work item and issues its places
\* call; the pool has at most max_workers threads, each running one item
TaskStart(i) ==
    /\ pc = "conc_pool"
    /\ i \in Queued
    /\ \A j \in Queued : i <= j
    /\ Cardinality(Running) < max_workers
    /\ tasks' = [tasks EXCEPT ![i].state = "running"]
    /\ places_calls' = [places_calls EXCEPT !["conc"] = @ \cup {i}]
    /\ UNCHANGED <<print_vars, loader_vars, input_vars, pc, mode, search_coords, found_stores,
                   next_store, collected, returned, propagated, examined, diagnostics>>

\* variant: a call that hangs is cut off by a timeout and the item ends
TaskFinishTimeout(i) ==
    /\ pc = "conc_pool"
    /\ i \in Running
    /\ LET r == SearchSingleStore(deals_data[i].store_name, deals_data[i].deal,
                                  search_coords, radius_miles)
       IN  /\ tasks' = [tasks EXCEPT ![i] = [state |-> "done", outcome |-> r]]
           /\ examined' = [examined EXCEPT !["conc"][i] = r.examined]
           /\ diagnostics' = [diagnostics EXCEPT !["conc"].stores =
                                 IF r.printed THEN @ \cup {i} ELSE @]
    /\ UNCHANGED <<print_vars, loader_vars, input_vars, pc, mode, search_coords, found_stores,
                   next_store, collected, returned, propagated, places_calls>>

\* variant: the worker appends its result to the shared found_stores itself
TaskFinishSharedAppend(i) ==
    /\ pc = "conc_pool"
    /\ i \in Running
    /\ PlacesCallComes(deals_data[i].store_name)
    /\ LET r == SearchSingleStore(deals_data[i].store_name, deals_data[i].deal,
                                  search_coords, radius_miles)
       IN  /\ tasks' = [tasks EXCEPT ![i] = [state |-> "done", outcome |-> r]]
           /\ found_stores' = found_stores \o r.found
           /\ examined' = [examined EXCEPT !["conc"][i] = r.examined]
           /\ diagnostics' = [diagnostics EXCEPT !["conc"].stores =
                                 IF r.printed THEN @ \cup {i} ELSE @]
    /\ UNCHANGED <<print_vars, loader_vars, input_vars, pc, mode, search_coords,
                   next_store, collected, returned, propagated, places_calls>>

\* the places call of a running item answers; _search_single_store runs to
\* its return and the future is set
TaskFinish(i) ==
    /\ pc = "conc_pool"
    /\ i \in Running
    /\ PlacesCallComes(deals_data[i].store_name)
    /\ LET r == SearchSingleStore(deals_data[i].store_name, deals_data[i].deal,
                                  search_coords, radius_miles)
       IN  /\ tasks' = [tasks EXCEPT ![i] = [state |-> "done", outcome |-> r]]
           /\ examined' = [examined EXCEPT !["conc"][i] = r.examined]
           /\ diagnostics' = [diagnostics EXCEPT !["conc"].stores =
                                 IF r.printed THEN @ \cup {i} ELSE @]
    /\ UNCHANGED <<print_vars, loader_vars, input_vars, pc, mode, search_coords, found_stores,
                   next_store, collected, returned, propagated, places_calls>>

\* variant: found_stores = result instead of found_stores.extend(result)
CollectIntoReplace(list, outcome) ==
    IF outcome.exc = "none" /\ outcome.found # <<>> THEN outcome.found ELSE list

\* what the collecting loop does with a future's outcome: extend on a
\* non-empty result, print on an exception of future.result()
CollectInto(list, outcome) ==
    IF outcome.exc = "none" THEN list \o outcome.found ELSE list

\* as_completed yields a finished future, after every submit was made
Collect(i) ==
    /\ pc = "conc_pool"
    /\ next_store > Len(deals_data)
    /\ i \in Finished \ collected
    /\ LET outcome == tasks[i].outcome
       IN  IF outcome.exc # "none" /\ ~ExceptException(outcome.exc)
           THEN Raise /\ UNCHANGED diagnostics
           ELSE /\ collected' = collected \cup {i}
                /\ found_stores' = CollectInto(found_stores, outcome)
                /\ diagnostics' = [diagnostics EXCEPT !["conc"].stores =
                                      IF outcome.exc # "none" THEN @ \cup {i} ELSE @]
                /\ UNCHANGED <<pc, mode, search_coords, next_store, tasks, returned,
                               propagated>>
    /\ UNCHANGED <<print_vars, loader_vars, input_vars, places_calls, examined>>

\* variant: the sort and the return as soon as every entry was submitted,
\* without waiting for the futures
ConcSortReturnEarly ==
    /\ pc = "conc_pool"
    /\ next_store > Len(deals_data)
    /\ Return(SortByDistance(found_stores))
    /\ UNCHANGED <<print_vars, loader_vars, input_vars, propagated, places_calls, examined,
                   diagnostics>>

\* every future was yielded and the pool shut down: sort and return
ConcSortReturn ==
    /\ pc = "conc_pool"
    /\ next_store > Len(deals_data)
    /\ collected = 1..Len(tasks)
    /\ Return(SortByDistance(found_stores))
    /\ UNCHANGED <<print_vars, loader_vars, input_vars, propagated, places_calls, examined,
                   diagnostics>>

----------------------------------------------------------------------------
(* Inputs of the loader *)

RawStores == { <<"a">>, <<" ", "a">>, <<"a", " ">>, <<"b">>, <<" ", "b", " ">>, <<"a", " ", "b">> }
RawDeals == { <<"x">>, <<" ", "y">>, <<"x", " ">> }

CsvRows ==
    [store : {Some(s) : s \in RawStores}, deal : {Some(d) : d \in RawDeals}]
        \cup { [store |-> Some(<<"a">>), deal |-> None] }

SeqsUpTo(S, n) == UNION { [1..k -> S] : k \in 0..n }

NoLog(n) ==
    [ returned     |-> [seq |-> None, conc |-> None],
      propagated   |-> [seq |-> FALSE, conc |-> FALSE],
      places_calls |-> [seq |-> {}, conc |-> {}],
      examined     |-> [seq |-> [i \in 1..n |-> 0], conc |-> [i \in 1..n |-> 0]],
      diagnostics  |-> [seq  |-> [geocode |-> FALSE, stores |-> {}],
                        conc |-> [geocode |-> FALSE, stores |-> {}]] ]

InitRun(n) ==
    /\ mode = "none"
    /\ search_coords = 0
    /\ found_stores = <<>>
    /\ next_store = 1
    /\ tasks = NoTasks
    /\ collected = {}
    /\ returned = NoLog(n).returned
    /\ propagated = NoLog(n).propagated
    /\ places_calls = NoLog(n).places_calls
    /\ examined = NoLog(n).examined
    /\ diagnostics = NoLog(n).diagnostics
    /\ stores = <<>>
    /\ stdout = <<>>

InitLoad ==
    /\ csv_file \in
         { [exists |-> FALSE, rows |-> <<>>] }
           \cup { [exists |-> TRUE, rows |-> r] : r \in SeqsUpTo(CsvRows, MaxRows) }
    /\ deals_data = <<>>
    /\ pc = "start"
    /\ max_workers = 1
    /\ radius_miles = 0
    /\ geo = [kind |-> "empty", coords |-> None]
    /\ responses = <<>>
    /\ InitRun(0)

NextLoad == LoadDealsData

SpecLoad == InitLoad /\ [][NextLoad]_vars

----------------------------------------------------------------------------
(* Inputs of a search: the catalog, the geocoder's and the place search's
   answers, the radius and the pool size *)

\* the store name of catalog entry i
StoreName(i) == [j \in 1..i |-> "a"]

\* a catalog file of n stores; store 1 has a second, later row
CatalogRows(n) ==
    [i \in 1..n |-> [store |-> Some(<<" ">> \o StoreName(i)), deal |-> Some(<<"x">>)]]
      \o (IF n >= 1 THEN << [store |-> Some(StoreName(1) \o <<" ">>),
                             deal |-> Some(<<"y">>)] >>
          ELSE <<>>)

\* the candidates of the place search: one 2.3 miles north of the origin the
\* geocoder resolves (position 100), one 2.996 miles south of it, one without
\* coordinates
PlaceNear ==
    [ geometry |-> Some(2400), formatted_address |-> Some("1 Main St"),
      place_id |-> None, rating |-> Some("4.5"), user_ratings_total |-> Some("10") ]
PlaceEdge ==
    [ geometry |-> Some(-2896), formatted_address |-> None,
      place_id |-> None, rating |-> None, user_ratings_total |-> None ]
PlaceBad ==
    [ geometry |-> None, formatted_address |-> Some("2 Side St"),
      place_id |-> None, rating |-> None, user_ratings_total |-> None ]

Places == {PlaceNear, PlaceEdge, PlaceBad}

\* the place search gives every candidate of an answer its own identifier
WithPlaceIds(results) ==
    [k \in 1..Len(results) |-> [results[k] EXCEPT !.place_id = Some(ToString(k))]]

\* the size of an answer: its number of candidates, and 1 for an answer that
\* is an error, no mapping, or a mapping without results
AnswerSize(response) ==
    IF response.kind = "ok" /\ ~IsNone(response.results)
    THEN Len(response.results[1])
    ELSE 1

\* the answers of size at most n
ResponsesUpTo(n) ==
    { r \in { [kind |-> "raise", results |-> None],
              [kind |-> "none", results |-> None],
              [kind |-> "ok", results |-> None] } : n >= 1 }
      \cup { [kind |-> "ok", results |-> Some(WithPlaceIds(r))] :
               r \in SeqsUpTo(Places, n) }

\* the answers for k stores, of size at most budget in all
RECURSIVE ResponseSeqs(_, _)
ResponseSeqs(k, budget) ==
    IF k = 0 THEN { <<>> }
    ELSE UNION { { <<r>> \o rest : rest \in ResponseSeqs(k - 1, budget - AnswerSize(r)) } :
                 r \in ResponsesUpTo(budget) }

Radii == {1000, 2500, 2996, 5000}

GeocodeAnswers ==
    { [kind |-> "ok", coords |-> Some(100)],
      [kind |-> "ok", coords |-> None],
      [kind |-> "empty", coords |-> None],
      [kind |-> "raise", coords |-> None] }

Init ==
    /\ \E n \in 0..MaxStores :
         /\ csv_file = [exists |-> TRUE, rows |-> CatalogRows(n)]
         /\ deals_data = LoadDeals(CatalogRows(n)).deals
         /\ responses \in ResponseSeqs(n, MaxAnswers)
         /\ InitRun(n)
    /\ pc = "idle"
    /\ geo \in GeocodeAnswers
    \* a search whose geocoding fails returns before it reads the radius or the
    \* pool size: one value of each is drawn for it
    /\ IF geo.kind = "ok" /\ ~IsNone(geo.coords)
       THEN max_workers \in 1..MaxWorkers /\ radius_miles \in Radii
       ELSE max_workers = MaxWorkers /\ radius_miles = 5000

Next ==
    \/ SeqGeocode
    \/ SeqIteration
    \/ SeqSortReturn
    \/ ConcGeocode
    \/ Submit
    \/ \E i \in 1..Len(tasks) : TaskStart(i)
    \/ \E i \in 1..Len(tasks) : TaskFinish(i)
    \/ \E i \in 1..Len(tasks) : Collect(i)
    \/ ConcSortReturn

Spec == Init /\ [][Next]_vars

\* the interpreter keeps running: while the main thread or a worker thread
\* has a step to take, one of them takes a step
\* the run of performance_test.py: test_radius = 5.0
InitFair == Init /\ radius_miles = 5000

SpecFair == InitFair /\ [][Next]_vars /\ WF_vars(Next)

----------------------------------------------------------------------------
(* A program that runs the concurrent search alone, as main and example_usage.py
   do, against a places client some of whose calls never come back.
   No timeout is passed to googlemaps.Client, to as_completed or to
   future.result, and leaving the with-block joins every worker thread. *)

HangAnswer == [kind |-> "hang", results |-> None]

\* a store's call finds a place within the radius, raises, or never comes back
HangAnswers ==
    { [kind |-> "ok", results |-> Some(WithPlaceIds(<<PlaceNear>>))],
      [kind |-> "raise", results |-> None],
      HangAnswer }

InitHang ==
    /\ \E n \in 1..MaxStores :
         /\ csv_file = [exists |-> TRUE, rows |-> CatalogRows(n)]
         /\ deals_data = LoadDeals(CatalogRows(n)).deals
         /\ responses \in [1..n -> HangAnswers]
         /\ InitRun(n)
    /\ pc = "example"
    /\ geo = [kind |-> "ok", coords |-> Some(100)]
    /\ max_workers \in 1..MaxWorkers
    /\ radius_miles = 5000

NextHang ==
    \/ ConcGeocode
    \/ Submit
    \/ \E i \in 1..Len(tasks) : TaskStart(i)
    \/ \E i \in 1..Len(tasks) : TaskFinish(i)
    \/ \E i \in 1..Len(tasks) : Collect(i)
    \/ ConcSortReturn

\* the main thread and every worker thread are scheduled: a step that stays
\* possible is eventually taken
FairHang ==
    /\ WF_vars(ConcGeocode)
    /\ WF_vars(Submit)
    /\ \A i \in 1..MaxStores : WF_vars(TaskStart(i))
    /\ \A i \in 1..MaxStores : WF_vars(TaskFinish(i))
    /\ \A i \in 1..MaxStores : WF_vars(Collect(i))
    /\ WF_vars(ConcSortReturn)

SpecHang == InitHang /\ [][NextHang]_vars /\ FairHang

----------------------------------------------------------------------------
(* print_results, applied to a list of Matches.  A printed line is the
   sequence of the pieces its f-string is put together from: the literal
   text and str() of each interpolated value. *)

\* if store['rating'] != 'N/A': print(f"   Rating: .../5 (... reviews)")
RatingLine(store) ==
    IF store.rating # "N/A"
    THEN << <<"   Rating: ", store.rating, "/5 (", store.user_ratings_total, " reviews)">> >>
    ELSE <<>>

\* the body of the loop over enumerate(stores, 1)
StoreLines(i, store) ==
    << <<ToString(i), ". ", store.store_name>>,
       <<"   Deal: ", store.deal>>,
       <<"   Address: ", store.address>>,
       <<"   Distance: ", ToString(store.distance_miles), " miles">> >>
      \o RatingLine(store)
      \o << <<>> >>

RECURSIVE AllStoreLines(_, _)
AllStoreLines(list, i) ==
    IF i > Len(list) THEN <<>>
    ELSE StoreLines(i, list[i]) \o AllStoreLines(list, i + 1)

PrintLines(list, location, radius) ==
    << <<"\nBirthday Deals within ", ToString(radius), " miles of ", location>>,
       <<"============================================================">> >>
      \o (IF list = <<>>
          THEN << <<"No stores with birthday deals found in the specified radius.">> >>
          ELSE << <<"Found ", ToString(Len(list)), " stores with birthday deals:\n">> >>
                 \o AllStoreLines(list, 1))

\* finder.print_results(stores, location, radius)
PrintResults ==
    /\ pc = "print"
    /\ stdout' = PrintLines(stores, "New York, NY", radius_miles)
    /\ pc' = "printed"
    /\ UNCHANGED <<stores, loader_vars, input_vars, run_vars, log_vars>>

\* the places a Match is made from: each optional field present or missing
PrintedPlaces ==
    [ geometry : {Some(2400)}, formatted_address : {None, Some("1 Main St")},
      place_id : {None}, rating : {None, Some("4.5")},
      user_ratings_total : {None, Some("10")} ]

\* the Matches a search can hand over, as _search_single_store makes them
PrintedMatches ==
    { MakeMatch("Store", "Free item", place, Geodesic(100, place.geometry[1])) :
        place \in PrintedPlaces }

InitPrint ==
    /\ csv_file = [exists |-> TRUE, rows |-> <<>>]
    /\ deals_data = <<>>
    /\ pc = "print"
    /\ max_workers = 1
    /\ radius_miles = 5000
    /\ geo = [kind |-> "ok", coords |-> Some(100)]
    /\ responses = <<>>
    /\ mode = "none"
    /\ search_coords = 0
    /\ found_stores = <<>>
    /\ next_store = 1
    /\ tasks = NoTasks
    /\ collected = {}
    /\ returned = NoLog(0).returned
    /\ propagated = NoLog(0).propagated
    /\ places_calls = NoLog(0).places_calls
    /\ examined = NoLog(0).examined
    /\ diagnostics = NoLog(0).diagnostics
    /\ stores \in SeqsUpTo(PrintedMatches, MaxPrinted)
    /\ stdout = <<>>

NextPrint == PrintResults

SpecPrint == InitPrint /\ [][NextPrint]_vars

----------------------------------------------------------------------------
(* Vocabulary of the properties, stated on the inputs and the logs *)

Modes == {"seq", "conc"}

Range(s) == {s[i] : i \in 1..Len(s)}

HasReturned(m) == ~IsNone(returned[m])
Result(m) == returned[m][1]

GeocodeFails == geo.kind # "ok" \/ IsNone(geo.coords)

\* the candidates the place search answers for catalog entry i
Candidates(i) ==
    IF responses[i].kind = "ok" /\ ~IsNone(responses[i].results)
    THEN responses[i].results[1]
    ELSE <<>>

WellFormed(i, k) == ~IsNone(Candidates(i)[k].geometry)

\* the distance of candidate k of entry i from the resolved origin
TrueDistance(i, k) ==
    LET o == geo.coords[1]
        c == Candidates(i)[k].geometry[1]
    IN  IF c >= o THEN c - o ELSE o - c

\* candidate k of entry i lies within the radius of the resolved origin
Qualifies(i, k) ==
    ~GeocodeFails /\ WellFormed(i, k) /\ TrueDistance(i, k) <= radius_miles

QualifyingOf(i) == {k \in 1..Len(Candidates(i)) : Qualifies(i, k)}

\* the positions in a search's returned list of the Matches of catalog entry i
MatchesOf(m, i) ==
    {k \in 1..Len(Result(m)) : Result(m)[k].store_name = deals_data[i].store_name}

\* the search of entry i fails: the call raises, the answer is no mapping, or
\* a candidate without coordinates comes before any candidate within the radius
SearchFails(i) ==
    \/ responses[i].kind \in {"raise", "none"}
    \/ \E k \in 1..Len(Candidates(i)) :
         /\ ~WellFormed(i, k)
         /\ \A j \in 1..(k - 1) : ~Qualifies(i, j)

\* a two-decimal value as the nearest multiple of 10
IsRoundingOf(v, d) ==
    /\ v % 10 = 0
    /\ 2 * (v - d) <= 10 /\ 2 * (d - v) <= 10

----------------------------------------------------------------------------
(* C1 *)

\* C1: in the list every search returns, each Match's recorded distance
\* (rounded to two decimals) is <= the requested radius.
C1_RecordedDistanceWithinRadius ==
    \A m \in Modes :
        HasReturned(m) =>
            \A k \in 1..Len(Result(m)) : Result(m)[k].distance_miles <= radius_miles

----------------------------------------------------------------------------
(* C2 *)

\* C2: the list a search returns holds at most one Match per store name, so
\* it is no longer than the catalog.
C2_AtMostOneMatchPerStore ==
    \A m \in Modes :
        HasReturned(m) =>
            /\ \A j, k \in 1..Len(Result(m)) :
                  Result(m)[j].store_name = Result(m)[k].store_name => j = k
            /\ Len(Result(m)) <= Len(deals_data)

\* the concurrent search returned one Match for a store whose answer holds two
\* candidates within the radius
C2_Witness ==
    /\ HasReturned("conc")
    /\ \E i \in 1..Len(deals_data) :
          /\ Cardinality(QualifyingOf(i)) >= 2
          /\ Cardinality(MatchesOf("conc", i)) = 1

----------------------------------------------------------------------------
(* C3 *)

\* C3: the list a search returns is ascending by Match distance, and Matches
\* of equal distance are in catalog order.
C3_SortedTiesInCatalogOrder ==
    \A m \in Modes :
        HasReturned(m) =>
            \A j, k \in 1..Len(Result(m)) :
                j < k =>
                    /\ Result(m)[j].distance_miles <= Result(m)[k].distance_miles
                    /\ Result(m)[j].distance_miles = Result(m)[k].distance_miles
                         => KeyIndex(deals_data, Result(m)[j].store_name)
                              < KeyIndex(deals_data, Result(m)[k].store_name)

----------------------------------------------------------------------------
(* C4 *)

\* C4: on the same catalog, origin and answers, the sequential and the
\* concurrent search return the same set of Matches.
C4_SameMatchSet ==
    (HasReturned("seq") /\ HasReturned("conc")) =>
        Range(Result("seq")) = Range(Result("conc"))

\* both searches returned two Matches, in different orders
C4_Witness ==
    /\ HasReturned("seq") /\ HasReturned("conc")
    /\ max_workers >= 2
    /\ Len(Result("conc")) >= 2
    /\ Result("seq") # Result("conc")

----------------------------------------------------------------------------
(* C5 *)

\* C5: no search raises; when the origin resolves, a store whose search fails
\* has no Match in the returned list, every store was searched, and every store
\* whose search does not fail and has a candidate within the radius has a Match.
C5_StoreFailureIsolated ==
    \A m \in Modes :
        /\ ~propagated[m]
        /\ (HasReturned(m) /\ ~GeocodeFails) =>
              \A i \in 1..Len(deals_data) :
                  /\ i \in places_calls[m]
                  /\ SearchFails(i) => MatchesOf(m, i) = {}
                  /\ (~SearchFails(i) /\ QualifyingOf(i) # {}) => MatchesOf(m, i) # {}

\* the concurrent search returned the Match of the second store although the
\* first store's search failed
C5_Witness ==
    /\ HasReturned("conc") /\ HasReturned("seq")
    /\ Len(deals_data) >= 2
    /\ SearchFails(1)
    /\ MatchesOf("conc", 2) # {} /\ MatchesOf("seq", 2) # {}

----------------------------------------------------------------------------
(* C6 *)

\* C6: when geocoding the origin fails, a search returns the empty list, raises
\* nothing and issues no place search.
C6_GeocodeFailureReturnsEmpty ==
    GeocodeFails =>
        \A m \in Modes :
            /\ ~propagated[m]
            /\ places_calls[m] = {}
            /\ mode # m
            /\ HasReturned(m) => Result(m) = <<>>

\* both searches returned after a failed geocoding, with a store in the catalog
\* whose answer holds a candidate within the radius
C6_Witness ==
    /\ GeocodeFails
    /\ HasReturned("seq") /\ HasReturned("conc")
    /\ \E i \in 1..Len(deals_data) :
          \E k \in 1..Len(Candidates(i)) : WellFormed(i, k)

----------------------------------------------------------------------------
(* C7 *)

\* C7 as stated: with the origin resolved, the returned list holds a Match for
\* a store exactly when the store's answer holds a candidate within the radius.
C7_MatchIffCandidateWithinRadius ==
    \A m \in Modes :
        (HasReturned(m) /\ ~GeocodeFails) =>
            \A i \in 1..Len(deals_data) :
                MatchesOf(m, i) # {} <=> QualifyingOf(i) # {}

\* the candidates within the radius that no candidate without coordinates precedes
ReachableQualifyingOf(i) ==
    {k \in QualifyingOf(i) : \A j \in 1..(k - 1) : WellFormed(i, j)}

\* the scenario: one store, one candidate 2.3 miles away
Scenario ==
    /\ ~GeocodeFails
    /\ Len(deals_data) = 1
    /\ Len(Candidates(1)) = 1
    /\ WellFormed(1, 1) /\ TrueDistance(1, 1) = 2300

\* C7, amended: with the origin resolved, the returned list holds a Match for a
\* store exactly when the store's answer holds a candidate within the radius
\* that no candidate without coordinates precedes, and then exactly one; in the
\* scenario, radius 5.0 gives one Match at 2.3 and radius 1.0 gives none.
C7_MatchIffReachableCandidateWithinRadius ==
    \A m \in Modes :
        (HasReturned(m) /\ ~GeocodeFails) =>
            /\ \A i \in 1..Len(deals_data) :
                  /\ MatchesOf(m, i) # {} <=> ReachableQualifyingOf(i) # {}
                  /\ Cardinality(MatchesOf(m, i)) <= 1
            /\ (Scenario /\ radius_miles = 5000) =>
                  /\ Len(Result(m)) = 1
                  /\ Result(m)[1].store_name = deals_data[1].store_name
                  /\ Result(m)[1].distance_miles = 2300
            /\ (Scenario /\ radius_miles = 1000) => Result(m) = <<>>

\* the scenario at radius 5.0 returned its Match from both searches
C7_Witness ==
    /\ Scenario /\ radius_miles = 5000
    /\ HasReturned("seq") /\ HasReturned("conc")
    /\ Len(Result("conc")) = 1

----------------------------------------------------------------------------
(* C8 *)

\* the first candidate within the radius, in the answer's order
FirstQualifying(i) == CHOOSE k \in QualifyingOf(i) : \A j \in QualifyingOf(i) : k <= j

\* C8: a store's Match is made from the first candidate, in the answer's order,
\* that lies within the radius, and the loop looked at no candidate after it.
C8_FirstCandidateWithinRadiusWins ==
    \A m \in Modes :
        (HasReturned(m) /\ ~GeocodeFails) =>
            \A i \in 1..Len(deals_data) :
                \A k \in MatchesOf(m, i) :
                    /\ QualifyingOf(i) # {}
                    /\ Result(m)[k].place_id = Candidates(i)[FirstQualifying(i)].place_id[1]
                    /\ IsRoundingOf(Result(m)[k].distance_miles,
                                    TrueDistance(i, FirstQualifying(i)))
                    /\ examined[m][i] = FirstQualifying(i)

\* a store's Match is its first candidate although a later candidate of the
\* same answer is nearer
C8_Witness ==
    /\ ~GeocodeFails
    /\ HasReturned("seq") /\ HasReturned("conc")
    /\ \E i \in 1..Len(deals_data) :
          /\ MatchesOf("conc", i) # {} /\ MatchesOf("seq", i) # {}
          /\ \E k \in QualifyingOf(i) :
                /\ k > FirstQualifying(i)
                /\ TrueDistance(i, k) < TrueDistance(i, FirstQualifying(i))

----------------------------------------------------------------------------
(* C9 *)

\* C9: a store's Match is its nearest candidate within the radius: no
\* candidate of the answer within the radius is nearer than the Match.
C9_MatchIsNearestCandidate ==
    \A m \in Modes :
        (HasReturned(m) /\ ~GeocodeFails) =>
            \A i \in 1..Len(deals_data) :
                \A k \in MatchesOf(m, i) :
                    \E c \in QualifyingOf(i) :
                        /\ IsRoundingOf(Result(m)[k].distance_miles, TrueDistance(i, c))
                        /\ \A d \in QualifyingOf(i) : TrueDistance(i, c) <= TrueDistance(i, d)

----------------------------------------------------------------------------
(* C10 *)

\* t is s without its leading and trailing spaces
IsTrimOf(t, s) ==
    /\ t = <<>> \/ (t[1] # " " /\ t[Len(t)] # " ")
    /\ \E a \in 0..Len(s) :
          /\ a + Len(t) <= Len(s)
          /\ \A j \in 1..Len(s) :
                IF j > a /\ j <= a + Len(t) THEN s[j] = t[j - a] ELSE s[j] = " "

\* the rows of the file whose trimmed store field is the key
RowsOf(key) == {r \in 1..Len(csv_file.rows) : IsTrimOf(key, csv_file.rows[r].store[1])}

LastOf(S) == CHOOSE r \in S : \A q \in S : q <= r

\* C10: the loaded catalog has exactly one entry per trimmed store name of the
\* file, and its deal is the trimmed deal of the last row of that store.
C10_LastRowWins ==
    pc = "idle" =>
        /\ \A j, k \in 1..Len(deals_data) :
              deals_data[j].store_name = deals_data[k].store_name => j = k
        /\ \A r \in 1..Len(csv_file.rows) :
              \E k \in 1..Len(deals_data) : r \in RowsOf(deals_data[k].store_name)
        /\ \A k \in 1..Len(deals_data) :
              /\ RowsOf(deals_data[k].store_name) # {}
              /\ IsTrimOf(deals_data[k].deal,
                          csv_file.rows[LastOf(RowsOf(deals_data[k].store_name))].deal[1])

\* a file whose first and last rows name the same store with different
\* spacing and different deals was loaded into fewer entries than rows
C10_Witness ==
    /\ pc = "idle"
    /\ Len(csv_file.rows) = 3
    /\ Len(deals_data) = 2
    /\ csv_file.rows[1].store # csv_file.rows[3].store
    /\ 3 \in RowsOf(deals_data[1].store_name)
    /\ ~IsTrimOf(deals_data[1].deal, csv_file.rows[1].deal[1])

----------------------------------------------------------------------------
(* C11 *)

\* C11: the place searches in flight during a concurrent search never
\* outnumber max_workers; with max_workers = 1 no two of them overlap.
C11_InFlightAtMostMaxWorkers ==
    /\ Cardinality(Running) <= max_workers
    /\ max_workers = 1 => \A i, j \in Running : i = j

\* the pool is full: max_workers searches are in flight and a submitted one waits
C11_Witness ==
    /\ mode = "conc"
    /\ Cardinality(Running) = max_workers
    /\ Queued # {}

\* the catalog entries whose place search never comes back
HungStores == {i \in 1..Len(deals_data) : ~PlacesCallComes(deals_data[i].store_name)}

\* C12 as stated: with a pool larger than 1, one call that never returns and
\* the other calls returning, the concurrent search still returns.
C12_OneHungCallStillReturns ==
    (max_workers > 1 /\ Cardinality(HungStores) = 1) => <>HasReturned("conc")

\* C12 as amended: a call that never returns keeps the concurrent search from
\* returning whatever the pool size; with a pool larger than 1 and one such
\* call the other stores are still searched and their Matches collected,
\* and the search then waits on the hung call for ever.
C12_HungCallBlocksReturn ==
    /\ [](HungStores # {} => ~HasReturned("conc"))
    /\ (max_workers > 1 /\ Cardinality(HungStores) = 1) =>
          <>[](/\ pc = "conc_pool"
               /\ collected = (1..Len(deals_data)) \ HungStores
               /\ Running = HungStores)

\* one call hangs in a pool of two; the other store's Match was collected
C12_Witness ==
    /\ max_workers > 1
    /\ Cardinality(HungStores) = 1
    /\ Running = HungStores
    /\ collected = (1..Len(deals_data)) \ HungStores
    /\ found_stores # <<>>

\* the printed lines that are rating lines
RatingLinesPrinted == {k \in 1..Len(stdout) : stdout[k] # <<>> /\ stdout[k][1] = "   Rating: "}

\* C13: print_results prints a rating line for exactly the Matches that have
\* rating data, and no printed line contains the sentinel 'N/A', also when
\* only one of rating and rating count is present.
C13_RatingLineNeverPrintsSentinel ==
    pc = "printed" =>
       /\ Cardinality(RatingLinesPrinted)
             = Cardinality({i \in 1..Len(stores) : stores[i].rating # "N/A"})
       /\ \A k \in 1..Len(stdout) : \A j \in 1..Len(stdout[k]) : stdout[k][j] # "N/A"

----------------------------------------------------------------------------
(* C14 *)

FailedStores == {i \in 1..Len(deals_data) : SearchFails(i)}

\* C14: a search prints the geocoding message only when geocoding fails and a
\* store's message only for a store whose search fails; by the time it
\* returns it has printed the geocoding message if geocoding failed, and
\* otherwise the message of every store whose search failed.
C14_FailuresReportedBeforeReturn ==
    \A m \in Modes :
        /\ diagnostics[m].geocode => GeocodeFails
        /\ diagnostics[m].stores \subseteq FailedStores
        /\ HasReturned(m) =>
              /\ GeocodeFails => diagnostics[m].geocode
              /\ ~GeocodeFails => diagnostics[m].stores = FailedStores

\* both searches returned a partial list, one store's Match without the
\* failed store's, and each printed the failed store's message
C14_Witness ==
    /\ HasReturned("seq") /\ HasReturned("conc")
    /\ FailedStores # {}
    /\ \A m \in Modes : Result(m) # <<>> /\ diagnostics[m].stores = FailedStores

----------------------------------------------------------------------------
(* C15 *)

\* the step in which the concurrent search returns the list it built
ConcReturns == mode = "conc" /\ ~HasReturned("conc") /\ HasReturned("conc")'

\* C15: a concurrent search never has more tasks than catalog entries, and
\* when it returns its list there is one task per catalog entry, every task
\* has finished, and the list holds the Match of every task that made one
\* and nothing else.
C15_ReturnAfterEveryTask ==
    [][ /\ Len(tasks') <= Len(deals_data)
        /\ ConcReturns =>
              /\ Len(tasks) = Len(deals_data)
              /\ \A i \in 1..Len(tasks) :
                    /\ tasks[i].state = "done"
                    /\ {Result("conc")'[k] : k \in MatchesOf("conc", i)'}
                          = Range(tasks[i].outcome.found)
              /\ Len(Result("conc")')
                    = Cardinality({i \in 1..Len(tasks) : tasks[i].outcome.found # <<>>})
      ]_vars

\* the concurrent search returned two Matches, the second store's first
C15_Witness ==
    /\ HasReturned("conc")
    /\ Len(Result("conc")) = 2
    /\ Result("conc")[1].store_name = deals_data[2].store_name
    /\ places_calls["conc"] = 1..Len(deals_data)

----------------------------------------------------------------------------
(* C16 *)

\* C16: with a geocoding call and place searches that all come back, with an
\* answer or an error, the sequential and the concurrent search both
\* eventually return, and no task is queued or running once they have.
C16_BothSearchesReturn ==
    <>[](/\ HasReturned("seq") /\ HasReturned("conc")
         /\ Queued = {} /\ Running = {})

\* both searches returned after the pool of one worker ran two tasks
C16_Witness ==
    /\ HasReturned("seq") /\ HasReturned("conc")
    /\ max_workers = 1
    /\ Cardinality(places_calls["conc"]) >= 2

----------------------------------------------------------------------------
(* C17 *)

\* C17: while the pool runs, a step that starts or finishes a task leaves the
\* shared found_stores alone; found_stores changes only when the collecting
\* loop takes one finished future and appends that task's own result; and
\* found_stores holds exactly the Matches of the futures taken so far.
C17_OnlyCollectorAppends ==
    [][ (pc = "conc_pool" /\ pc' = "conc_pool") =>
          /\ tasks' # tasks => found_stores' = found_stores
          /\ found_stores' # found_stores =>
                \E i \in Finished \ collected :
                    /\ collected' = collected \cup {i}
                    /\ found_stores' = found_stores \o tasks[i].outcome.found
          /\ Len(found_stores')
                = Cardinality({i \in collected' : tasks'[i].outcome.found # <<>>})
          /\ \A i \in collected' :
                Range(tasks'[i].outcome.found) \subseteq Range(found_stores')
      ]_vars

\* the collecting loop appended one task's Match while another task is running
C17_Witness ==
    /\ pc = "conc_pool"
    /\ found_stores # <<>>
    /\ collected # {}
    /\ Running # {}

----------------------------------------------------------------------------
(* C18 *)

\* the candidates of entry i without coordinates
MalformedOf(i) == {k \in 1..Len(Candidates(i)) : ~WellFormed(i, k)}

\* a candidate without coordinates comes before every candidate within the radius
MalformedFirst(i) ==
    \E k \in MalformedOf(i) : \A j \in QualifyingOf(i) : k < j

\* C18: a candidate without coordinates that comes before the store's first
\* candidate within the radius leaves the store without a Match, with a
\* message, whatever follows it; candidates without coordinates that only
\* follow the first candidate within the radius are never looked at, and the
\* store's Match is that first candidate's, without a message.
C18_MalformedCandidateByPosition ==
    \A m \in Modes :
        (HasReturned(m) /\ ~GeocodeFails) =>
            \A i \in 1..Len(deals_data) :
                /\ MalformedFirst(i) =>
                      /\ MatchesOf(m, i) = {}
                      /\ i \in diagnostics[m].stores
                      /\ examined[m][i] \in MalformedOf(i)
                      /\ \A j \in QualifyingOf(i) : examined[m][i] < j
                /\ (MalformedOf(i) # {} /\ ~MalformedFirst(i)) =>
                      /\ Cardinality(MatchesOf(m, i)) = 1
                      /\ \A k \in MatchesOf(m, i) :
                            Result(m)[k].place_id
                               = Candidates(i)[FirstQualifying(i)].place_id[1]
                      /\ examined[m][i] = FirstQualifying(i)
                      /\ \A j \in MalformedOf(i) : examined[m][i] < j
                      /\ i \notin diagnostics[m].stores

\* a store has no Match although the candidate after its malformed one is
\* within the radius
C18_Witness ==
    /\ ~GeocodeFails
    /\ HasReturned("seq") /\ HasReturned("conc")
    /\ \E i \in 1..Len(deals_data) :
          /\ MalformedFirst(i)
          /\ QualifyingOf(i) # {}
          /\ MatchesOf("seq", i) = {} /\ MatchesOf("conc", i) = {}

\* a store's Match is its first candidate, the malformed one after it not looked at
C18_MalformedAfterReached ==
    /\ ~GeocodeFails
    /\ HasReturned("seq") /\ HasReturned("conc")
    /\ \E i \in 1..Len(deals_data) :
          /\ MalformedOf(i) # {} /\ ~MalformedFirst(i)
          /\ MatchesOf("conc", i) # {}

----------------------------------------------------------------------------
(* C19 *)

\* the distances recorded in a list of Matches differ from one another
DistinctDistances(list) ==
    \A j, k \in 1..Len(list) :
        j # k => list[j].distance_miles # list[k].distance_miles

\* C19: when the Matches of a concurrent search have pairwise distinct
\* distances, the list it returns is in strictly ascending distance and is
\* the list the sequential search returns for the same catalog, origin and
\* answers: whatever the order in which the tasks completed and whatever
\* max_workers, there is one list the search can return.
C19_ConcurrentOutputDetermined ==
    (HasReturned("seq") /\ HasReturned("conc") /\ DistinctDistances(Result("conc"))) =>
        /\ Result("conc") = Result("seq")
        /\ \A k \in 1..(Len(Result("conc")) - 1) :
              Result("conc")[k].distance_miles < Result("conc")[k + 1].distance_miles

\* a pool of two returned two Matches of distinct distances, the second
\* catalog entry's first
C19_Witness ==
    /\ HasReturned("seq") /\ HasReturned("conc")
    /\ max_workers >= 2
    /\ Len(Result("conc")) = 2
    /\ DistinctDistances(Result("conc"))
    /\ Result("conc")[1].store_name = deals_data[2].store_name
    /\ Result("conc")[2].store_name = deals_data[1].store_name

====
